---- MODULE Spec2Model ----
(***************************************************************************)
(* Model of bookable_event_logger/logger.py: the EventLogger facade (its   *)
(* constructor, _build_event, log_event and the levelled wrappers), the    *)
(* NoOpEventLogger stand-in and the process-wide singleton held in the     *)
(* module global _event_logger (init_event_logger / get_event_logger).     *)
(*                                                                         *)
(* Python values are tagged records, so that None, "" and {} are distinct  *)
(* values with Python's truthiness.  A dict is the sequence of its         *)
(* <<key, value>> items in insertion order.                                *)
(***************************************************************************)
EXTENDS Naturals, Sequences, FiniteSets, TLC

VARIABLES
    env,           \* os.environ: variable name -> Str(..) or None (unset)
    event_logger,  \* the module global _event_logger
    nextId,        \* number of EventLogger objects allocated so far
    pc,            \* per thread: position in the call it is executing
    self,          \* per thread: the EventLogger object its constructor is building
    call,          \* per thread: the call in progress / last made (op, arguments)
    ret,           \* per thread: how its last call ended (return value or exception)
    sent,          \* per thread: the publish calls of its call, each with the transport's answer
    held,          \* per thread: the facade reference the caller keeps
    installed      \* history: the facade the last successful init_event_logger returned

vars == <<env, event_logger, nextId, pc, self, call, ret, sent, held, installed>>

-----------------------------------------------------------------------------
(* Python values *)

None == [type |-> "NoneType"]

Str(s) == [type |-> "str", v |-> s]

Dict(items) == [type |-> "dict", v |-> items]

\* a value json cannot encode (a set, an arbitrary object)
PySet == [type |-> "set"]

Tuple2(a, b) == [type |-> "tuple", v |-> <<a, b>>]

EmptyDict == Dict(<<>>)

\* bool(x)
Truthy(x) ==
    CASE x.type = "NoneType" -> FALSE
      [] x.type = "str" -> x.v # ""
      [] x.type = "dict" -> x.v # <<>>
      [] OTHER -> TRUE

\* a or b
Or(a, b) == IF Truthy(a) THEN a ELSE b

\* d[key] for a key the dict has
RECURSIVE ItemAt(_, _)
ItemAt(items, key) ==
    IF Head(items)[1] = key THEN Head(items)[2] ELSE ItemAt(Tail(items), key)

Get(d, key) == ItemAt(d.v, key)

Keys(d) == [i \in 1..Len(d.v) |-> d.v[i][1]]

\* sep.join(strs)
RECURSIVE Join(_, _)
Join(sep, strs) ==
    IF strs = <<>> THEN ""
    ELSE IF Len(strs) = 1 THEN strs[1]
    ELSE strs[1] \o sep \o Join(sep, Tail(strs))

\* s.replace(old, new): every non-overlapping occurrence, left to right
RECURSIVE Replace(_, _, _)
Replace(s, old, new) ==
    IF Len(s) < Len(old) THEN s
    ELSE IF SubSeq(s, 1, Len(old)) = old
         THEN new \o Replace(SubSeq(s, Len(old) + 1, Len(s)), old, new)
         ELSE SubSeq(s, 1, 1) \o Replace(SubSeq(s, 2, Len(s)), old, new)

-----------------------------------------------------------------------------
(* json.dumps *)

\* the string escapes json.dumps applies to the characters of the model
JsonEscape(s) == Replace(Replace(s, "\\", "\\\\"), "\"", "\\\"")

RECURSIVE JsonSerializable(_)
JsonSerializable(x) ==
    CASE x.type = "NoneType" -> TRUE
      [] x.type = "str" -> TRUE
      [] x.type = "dict" -> \A i \in 1..Len(x.v) : JsonSerializable(x.v[i][2])
      [] OTHER -> FALSE

\* json.dumps(x) for a serializable x, with the default separators
RECURSIVE JsonText(_)
JsonText(x) ==
    CASE x.type = "NoneType" -> "null"
      [] x.type = "str" -> "\"" \o JsonEscape(x.v) \o "\""
      [] x.type = "dict" ->
           "{" \o Join(", ", [i \in 1..Len(x.v) |->
                   "\"" \o JsonEscape(x.v[i][1]) \o "\": " \o JsonText(x.v[i][2])])
               \o "}"

json_dumps(x) == Str(JsonText(x))

\* json.dumps(event).encode("utf-8"): the bytes handed to the transport, kept as
\* the event they encode (no operation of the program reads them back)
encode_json(event) == [type |-> "bytes", json |-> event]

-----------------------------------------------------------------------------
(* Configuration: os.getenv and EventLogger.__init__ *)

\* os.getenv(key, default): the variable's value when it is set, even to ""
getenv(key, default) == IF env[key] # None THEN env[key] ELSE default

\* an attribute the constructor has not assigned yet
Unassigned == [type |-> "unassigned"]

\* the object EventLogger(...) allocates, before __init__ has run
NewEventLogger(id) ==
    [type |-> "EventLogger", id |-> id,
     project_id |-> Unassigned, topic_name |-> Unassigned,
     environment |-> Unassigned, service_name |-> Unassigned,
     credentials_path |-> Unassigned,
     publisher |-> Unassigned, topic_path |-> Unassigned]

\* faulty variant of resolve_config: LOG_TOPIC read without its default
resolve_config_no_default(obj, p) ==
    [obj EXCEPT
       !.project_id = Or(p.project_id, getenv("LOG_GCP_PROJECT", None)),
       !.topic_name = Or(p.topic_name, getenv("LOG_TOPIC", None)),
       !.environment = Or(p.environment, getenv("LOG_ENVIRONMENT", None)),
       !.service_name = Or(p.service_name, getenv("LOG_SERVICE_NAME", None)),
       !.credentials_path = Or(p.credentials_path, getenv("LOG_GCP_CREDENTIALS", None))]

\* "Resolve config": explicit argument, else the environment variable
resolve_config(obj, p) ==
    [obj EXCEPT
       !.project_id = Or(p.project_id, getenv("LOG_GCP_PROJECT", None)),
       !.topic_name = Or(p.topic_name, getenv("LOG_TOPIC", Str("events"))),
       !.environment = Or(p.environment, getenv("LOG_ENVIRONMENT", None)),
       !.service_name = Or(p.service_name, getenv("LOG_SERVICE_NAME", None)),
       !.credentials_path = Or(p.credentials_path, getenv("LOG_GCP_CREDENTIALS", None))]

\* the dict `required`, in insertion order
required(obj) ==
    << <<"LOG_GCP_PROJECT / project_id", obj.project_id>>,
       <<"LOG_TOPIC / topic_name", obj.topic_name>>,
       <<"LOG_ENVIRONMENT / environment", obj.environment>>,
       <<"LOG_SERVICE_NAME / service_name", obj.service_name>>,
       <<"LOG_GCP_CREDENTIALS / credentials_path", obj.credentials_path>> >>

NotValue(item) == ~Truthy(item[2])

\* faulty variant of missing: fail-fast, only the first missing setting is reported
missing_first_only(obj) ==
    LET falsy == SelectSeq(required(obj), NotValue)
    IN  IF falsy = <<>> THEN <<>> ELSE <<falsy[1][1]>>

\* [name for name, value in required.items() if not value]
missing(obj) ==
    LET falsy == SelectSeq(required(obj), NotValue)
    IN  [i \in 1..Len(falsy) |-> falsy[i][1]]

\* the ValueError the constructor raises
MissingConfigError(names) ==
    [type |-> "ValueError",
     msg |-> Str("Missing required config for EventLogger: " \o Join(", ", names))]

\* pubsub_v1.PublisherClient(credentials=credentials)
PublisherClient(credentials_path) ==
    [type |-> "PublisherClient", credentials |-> credentials_path.v]

\* PublisherClient.topic_path(project, topic)
topic_path(project, topic) == Str("projects/" \o project.v \o "/topics/" \o topic.v)

\* the constructor has run to its end on obj
Constructed(obj) ==
    /\ obj.type = "EventLogger"
    /\ obj.publisher # Unassigned
    /\ obj.topic_path # Unassigned

-----------------------------------------------------------------------------
(* EventLogger._build_event, log_event and the wrappers *)

\* faulty variant of build_event: a correlation id is generated even when one is supplied
build_event_always_generates(obj, kw, event_id, generated_id, now) ==
    LET service_name == Or(kw.service, obj.service_name)
        actor_obj == Or(kw.actor, EmptyDict)
        data_obj == Or(kw.data, EmptyDict)
    IN  Dict(<< <<"event_id", Str(event_id)>>,
                <<"correlation_id", Str(generated_id)>>,
                <<"service", service_name>>,
                <<"event_type", kw.event_type>>,
                <<"level", kw.level>>,
                <<"environment", obj.environment>>,
                <<"created_at", Str(Replace(now, "+00:00", "Z"))>>,
                <<"actor", json_dumps(actor_obj)>>,
                <<"data", json_dumps(data_obj)>> >>)

\* faulty variant of build_event: the service override is used as given, without the default
build_event_no_service_default(obj, kw, event_id, generated_id, now) ==
    LET service_name == kw.service
        actor_obj == Or(kw.actor, EmptyDict)
        data_obj == Or(kw.data, EmptyDict)
    IN  Dict(<< <<"event_id", Str(event_id)>>,
                <<"correlation_id", Or(kw.correlation_id, Str(generated_id))>>,
                <<"service", service_name>>,
                <<"event_type", kw.event_type>>,
                <<"level", kw.level>>,
                <<"environment", obj.environment>>,
                <<"created_at", Str(Replace(now, "+00:00", "Z"))>>,
                <<"actor", json_dumps(actor_obj)>>,
                <<"data", json_dumps(data_obj)>> >>)

\* _build_event; event_id and generated_id are the uuid4 draws, now the clock's
\* datetime.now(timezone.utc).isoformat()
build_event(obj, kw, event_id, generated_id, now) ==
    LET service_name == Or(kw.service, obj.service_name)
        actor_obj == Or(kw.actor, EmptyDict)
        data_obj == Or(kw.data, EmptyDict)
    IN  Dict(<< <<"event_id", Str(event_id)>>,
                <<"correlation_id", Or(kw.correlation_id, Str(generated_id))>>,
                <<"service", service_name>>,
                <<"event_type", kw.event_type>>,
                <<"level", kw.level>>,
                <<"environment", obj.environment>>,
                <<"created_at", Str(Replace(now, "+00:00", "Z"))>>,
                <<"actor", json_dumps(actor_obj)>>,
                <<"data", json_dumps(data_obj)>> >>)

\* json.dumps raises TypeError inside _build_event for these arguments
build_event_raises(kw) ==
    \/ ~JsonSerializable(Or(kw.actor, EmptyDict))
    \/ ~JsonSerializable(Or(kw.data, EmptyDict))

\* the keyword arguments each method hands to log_event
log(a) ==
    [event_type |-> a.event_type, level |-> a.level, data |-> Or(a.data, EmptyDict),
     correlation_id |-> a.correlation_id, actor |-> a.actor, service |-> a.service]

debug(a) ==
    [event_type |-> a.event_type, level |-> Str("debug"), data |-> Or(a.data, EmptyDict),
     correlation_id |-> a.correlation_id, actor |-> a.actor, service |-> a.service]

info(a) ==
    [event_type |-> a.event_type, level |-> Str("info"), data |-> Or(a.data, EmptyDict),
     correlation_id |-> a.correlation_id, actor |-> a.actor, service |-> a.service]

warning(a) ==
    [event_type |-> a.event_type, level |-> Str("warning"), data |-> Or(a.data, EmptyDict),
     correlation_id |-> a.correlation_id, actor |-> a.actor, service |-> a.service]

\* faulty variant of error: the level copied from the wrapper above it
error_as_warning(a) ==
    [event_type |-> a.event_type, level |-> Str("warning"), data |-> Or(a.data, EmptyDict),
     correlation_id |-> a.correlation_id, actor |-> a.actor, service |-> a.service]

error(a) ==
    [event_type |-> a.event_type, level |-> Str("error"), data |-> Or(a.data, EmptyDict),
     correlation_id |-> a.correlation_id, actor |-> a.actor, service |-> a.service]

\* method `op` called with arguments a: the log_event call it makes
log_event_kwargs(op, a) ==
    CASE op = "log_event" -> a
      [] op = "log" -> log(a)
      [] op = "debug" -> debug(a)
      [] op = "info" -> info(a)
      [] op = "warning" -> warning(a)
      [] op = "error" -> error(a)

\* how a call ends
Return(value) == [kind |-> "return", value |-> value]

Raise(exc) == [kind |-> "raise", exc |-> exc]

NotCalled == [kind |-> "none"]

\* the handle publisher.publish returns
Future == [type |-> "Future"]

\* what publisher.publish(topic_path, payload) may do: return a future, or raise
PublishResponses ==
    {Return(Future),
     Raise([type |-> "DeadlineExceeded", msg |-> Str("publish: deadline exceeded")])}

\* faulty variant of publish_outcome: no try/except, the transport's exception escapes
publish_outcome_unguarded(event, response) ==
    IF response.kind = "return"
    THEN Return(Tuple2(event, response.value))
    ELSE response

\* the try/except around publisher.publish: the future, or None when it raised
publish_outcome(event, response) ==
    IF response.kind = "return"
    THEN Return(Tuple2(event, response.value))
    ELSE Return(Tuple2(event, None))

\* faulty variant of noop: no __getattr__ fallback, the attribute lookup fails
noop_attribute_error ==
    Raise([type |-> "AttributeError", msg |-> Str("'NoOpEventLogger' object has no attribute")])

\* NoOpEventLogger.__getattr__(name)(*args, **kwargs)
noop == Return(Tuple2(EmptyDict, None))

-----------------------------------------------------------------------------
(* Bounds and input domains *)

\* EventLogger objects allocated in one behaviour
MaxInstances == 2

Threads == {"t1", "t2"}

EnvNames ==
    {"LOG_GCP_PROJECT", "LOG_TOPIC", "LOG_ENVIRONMENT", "LOG_SERVICE_NAME",
     "LOG_GCP_CREDENTIALS"}

\* the value each environment variable has when it is set and not empty
EnvValue ==
    [k \in EnvNames |->
       CASE k = "LOG_GCP_PROJECT" -> Str("proj-env")
         [] k = "LOG_TOPIC" -> Str("topic-env")
         [] k = "LOG_ENVIRONMENT" -> Str("staging")
         [] k = "LOG_SERVICE_NAME" -> Str("billing-api")
         [] k = "LOG_GCP_CREDENTIALS" -> Str("/env/key.json")]

EnvUnset == [k \in EnvNames |-> None]

\* every environment: each variable unset, set to "" or set to its value
AllEnvs ==
    {e \in [EnvNames -> {None, Str("")} \cup {EnvValue[k] : k \in EnvNames}] :
        \A k \in EnvNames : e[k] \in {None, Str(""), EnvValue[k]}}

\* every constructor argument list: each argument None, "" or a value
AllParams ==
    [project_id : {None, Str(""), Str("proj-arg")},
     topic_name : {None, Str(""), Str("topic-arg")},
     environment : {None, Str(""), Str("prod")},
     service_name : {None, Str(""), Str("checkout-api")},
     credentials_path : {None, Str(""), Str("/arg/key.json")}]

NoParams ==
    [project_id |-> None, topic_name |-> None, environment |-> None,
     service_name |-> None, credentials_path |-> None]

ExplicitParams ==
    [project_id |-> Str("proj-arg"), topic_name |-> Str("topic-arg"),
     environment |-> Str("prod"), service_name |-> Str("checkout-api"),
     credentials_path |-> Str("/arg/key.json")]

\* the environments and argument lists of the lifecycle specifications
SomeEnvs == {EnvUnset, EnvValue}

SomeParams == {NoParams, ExplicitParams, [ExplicitParams EXCEPT !.service_name = None]}

\* str(uuid.uuid4())
Uuids ==
    {"6f1c2c1e-0000-4000-8000-000000000001", "6f1c2c1e-0000-4000-8000-000000000002"}

\* datetime.now(timezone.utc).isoformat()
Clock == {"2024-05-01T12:00:00.250000+00:00"}

Methods == {"log_event", "log", "debug", "info", "warning", "error"}

Wrappers == {"debug", "info", "warning", "error"}

\* the arguments a caller may pass to method op
MethodArgs(op) ==
    [event_type : {Str("signup")},
     level : IF op \in Wrappers THEN {None} ELSE {Str("info"), Str("audit")},
     data : {None, EmptyDict, Dict(<< <<"user", Str("abc")>> >>),
             Dict(<< <<"seen", PySet>> >>)},
     service : {None, Str(""), Str("billing")},
     correlation_id : {None, Str(""), Str("corr-1")},
     actor : {None, Dict(<< <<"id", Str("u1")>> >>)}]

-----------------------------------------------------------------------------
(* init_event_logger: the call, the constructor's steps, the write of the  *)
(* global, the return                                                      *)

\* faulty variant of InitCall: the object is installed as soon as it is allocated
InitCall_registers_early(t, P) ==
    /\ pc[t] = "idle"
    /\ nextId < MaxInstances
    /\ \E p \in P :
         call' = [call EXCEPT ![t] =
                    [op |-> "init_event_logger", args |-> p, target |-> None,
                     before |-> event_logger]]
    /\ nextId' = nextId + 1
    /\ self' = [self EXCEPT ![t] = NewEventLogger(nextId + 1)]
    /\ pc' = [pc EXCEPT ![t] = "ctor_resolve"]
    /\ ret' = [ret EXCEPT ![t] = NotCalled]
    /\ sent' = [sent EXCEPT ![t] = <<>>]
    /\ event_logger' = NewEventLogger(nextId + 1)
    /\ UNCHANGED <<env, held, installed>>

\* init_event_logger(**p) is called; EventLogger(...) allocates the object
InitCall(t, P) ==
    /\ pc[t] = "idle"
    /\ nextId < MaxInstances
    /\ \E p \in P :
         call' = [call EXCEPT ![t] =
                    [op |-> "init_event_logger", args |-> p, target |-> None,
                     before |-> event_logger]]
    /\ nextId' = nextId + 1
    /\ self' = [self EXCEPT ![t] = NewEventLogger(nextId + 1)]
    /\ pc' = [pc EXCEPT ![t] = "ctor_resolve"]
    /\ ret' = [ret EXCEPT ![t] = NotCalled]
    /\ sent' = [sent EXCEPT ![t] = <<>>]
    /\ UNCHANGED <<env, event_logger, held, installed>>

\* faulty variant of CtorResolve: a failed construction clears the global
CtorResolve_resets_global(t) ==
    /\ pc[t] = "ctor_resolve"
    /\ LET obj == resolve_config(self[t], call[t].args)
       IN  \/ /\ missing(obj) # <<>>
              /\ ret' = [ret EXCEPT ![t] = Raise(MissingConfigError(missing(obj)))]
              /\ self' = [self EXCEPT ![t] = None]
              /\ pc' = [pc EXCEPT ![t] = "returned"]
              /\ event_logger' = None
           \/ /\ missing(obj) = <<>>
              /\ self' = [self EXCEPT ![t] = obj]
              /\ pc' = [pc EXCEPT ![t] = "ctor_credentials"]
              /\ UNCHANGED <<ret, event_logger>>
    /\ UNCHANGED <<env, nextId, call, sent, held, installed>>

\* __init__, the configuration resolved and validated
CtorResolve(t) ==
    /\ pc[t] = "ctor_resolve"
    /\ LET obj == resolve_config(self[t], call[t].args)
       IN  \/ /\ missing(obj) # <<>>
              /\ ret' = [ret EXCEPT ![t] = Raise(MissingConfigError(missing(obj)))]
              /\ self' = [self EXCEPT ![t] = None]
              /\ pc' = [pc EXCEPT ![t] = "returned"]
           \/ /\ missing(obj) = <<>>
              /\ self' = [self EXCEPT ![t] = obj]
              /\ pc' = [pc EXCEPT ![t] = "ctor_credentials"]
              /\ UNCHANGED ret
    /\ UNCHANGED <<env, event_logger, nextId, call, sent, held, installed>>

\* service_account.Credentials.from_service_account_file: the file loads or not
CtorCredentials(t) ==
    /\ pc[t] = "ctor_credentials"
    /\ \/ /\ pc' = [pc EXCEPT ![t] = "ctor_publisher"]
          /\ UNCHANGED <<self, ret>>
       \/ /\ ret' = [ret EXCEPT ![t] = Raise([type |-> "FileNotFoundError",
                                               msg |-> self[t].credentials_path])]
          /\ self' = [self EXCEPT ![t] = None]
          /\ pc' = [pc EXCEPT ![t] = "returned"]
    /\ UNCHANGED <<env, event_logger, nextId, call, sent, held, installed>>

\* self.publisher and self.topic_path are bound; the constructor returns
CtorPublisher(t) ==
    /\ pc[t] = "ctor_publisher"
    /\ self' = [self EXCEPT ![t] =
                  [self[t] EXCEPT
                     !.publisher = PublisherClient(self[t].credentials_path),
                     !.topic_path = topic_path(self[t].project_id, self[t].topic_name)]]
    /\ pc' = [pc EXCEPT ![t] = "init_assign"]
    /\ UNCHANGED <<env, event_logger, nextId, call, ret, sent, held, installed>>

\* faulty variant of InitAssign: initialise once, a later instance is not installed
InitAssign_keeps_first(t) ==
    /\ pc[t] = "init_assign"
    /\ event_logger' = IF event_logger = None THEN self[t] ELSE event_logger
    /\ self' = [self EXCEPT ![t] = None]
    /\ pc' = [pc EXCEPT ![t] = "init_return"]
    /\ UNCHANGED <<env, nextId, call, ret, sent, held, installed>>

\* _event_logger = EventLogger(...)
InitAssign(t) ==
    /\ pc[t] = "init_assign"
    /\ event_logger' = self[t]
    /\ self' = [self EXCEPT ![t] = None]
    /\ pc' = [pc EXCEPT ![t] = "init_return"]
    /\ UNCHANGED <<env, nextId, call, ret, sent, held, installed>>

\* return _event_logger
InitReturn(t) ==
    /\ pc[t] = "init_return"
    /\ ret' = [ret EXCEPT ![t] = Return(event_logger)]
    /\ installed' = event_logger
    /\ pc' = [pc EXCEPT ![t] = "returned"]
    /\ UNCHANGED <<env, event_logger, nextId, self, call, sent, held>>

-----------------------------------------------------------------------------
(* get_event_logger *)

GetCall(t) ==
    /\ pc[t] = "idle"
    /\ call' = [call EXCEPT ![t] =
                  [op |-> "get_event_logger", args |-> None, target |-> None,
                   before |-> event_logger]]
    /\ ret' = [ret EXCEPT ![t] = NotCalled]
    /\ sent' = [sent EXCEPT ![t] = <<>>]
    /\ pc' = [pc EXCEPT ![t] = "get_check"]
    /\ UNCHANGED <<env, event_logger, nextId, self, held, installed>>

\* if _event_logger is None: return NoOpEventLogger()
GetCheck(t) ==
    /\ pc[t] = "get_check"
    /\ \/ /\ event_logger = None
          /\ ret' = [ret EXCEPT ![t] = Return([type |-> "NoOpEventLogger"])]
          /\ pc' = [pc EXCEPT ![t] = "returned"]
       \/ /\ event_logger # None
          /\ pc' = [pc EXCEPT ![t] = "get_return"]
          /\ UNCHANGED ret
    /\ UNCHANGED <<env, event_logger, nextId, self, call, sent, held, installed>>

\* return _event_logger
GetReturn(t) ==
    /\ pc[t] = "get_return"
    /\ ret' = [ret EXCEPT ![t] = Return(event_logger)]
    /\ pc' = [pc EXCEPT ![t] = "returned"]
    /\ UNCHANGED <<env, event_logger, nextId, self, call, sent, held, installed>>

-----------------------------------------------------------------------------
(* the caller: keeping the facade a call returned, and calling its methods *)

IsFacade(x) == x.type \in {"EventLogger", "NoOpEventLogger"}

NoCall == [op |-> "none", args |-> None, target |-> None, before |-> None]

\* the caller keeps the facade init_event_logger / get_event_logger returned
Keep(t) ==
    /\ pc[t] = "returned"
    /\ ret[t].kind = "return"
    /\ IsFacade(ret[t].value)
    /\ held' = [held EXCEPT ![t] = ret[t].value]
    /\ pc' = [pc EXCEPT ![t] = "idle"]
    /\ call' = [call EXCEPT ![t] = NoCall]
    /\ ret' = [ret EXCEPT ![t] = NotCalled]
    /\ sent' = [sent EXCEPT ![t] = <<>>]
    /\ UNCHANGED <<env, event_logger, nextId, self, installed>>

\* the caller goes on, dropping the result (or past the exception it caught)
Discard(t) ==
    /\ pc[t] = "returned"
    /\ pc' = [pc EXCEPT ![t] = "idle"]
    /\ call' = [call EXCEPT ![t] = NoCall]
    /\ ret' = [ret EXCEPT ![t] = NotCalled]
    /\ sent' = [sent EXCEPT ![t] = <<>>]
    /\ UNCHANGED <<env, event_logger, nextId, self, held, installed>>

\* any method of a NoOpEventLogger, with any arguments
NoOpCall(t) ==
    /\ pc[t] = "idle"
    /\ held[t].type = "NoOpEventLogger"
    /\ \E op \in Methods : \E a \in MethodArgs(op) :
         call' = [call EXCEPT ![t] =
                    [op |-> op, args |-> a, target |-> held[t], before |-> event_logger]]
    /\ ret' = [ret EXCEPT ![t] = noop]
    /\ sent' = [sent EXCEPT ![t] = <<>>]
    /\ pc' = [pc EXCEPT ![t] = "returned"]
    /\ UNCHANGED <<env, event_logger, nextId, self, held, installed>>

\* log_event on obj with keyword arguments kw, run to its end
log_event(t, obj, kw) ==
    \/ /\ build_event_raises(kw)
       /\ ret' = [ret EXCEPT ![t] = Raise([type |-> "TypeError",
                      msg |-> Str("Object of type set is not JSON serializable")])]
       /\ sent' = [sent EXCEPT ![t] = <<>>]
    \/ /\ ~build_event_raises(kw)
       /\ \E event_id \in Uuids, generated_id \in Uuids, now \in Clock,
             response \in PublishResponses :
            LET event == build_event(obj, kw, event_id, generated_id, now)
                payload == encode_json(event)
            IN  /\ sent' = [sent EXCEPT ![t] =
                              << [topic |-> obj.topic_path, payload |-> payload,
                                  response |-> response] >>]
                /\ ret' = [ret EXCEPT ![t] = publish_outcome(event, response)]

\* a method of an EventLogger: log_event, log, debug, info, warning, error
MethodCall(t) ==
    /\ pc[t] = "idle"
    /\ held[t].type = "EventLogger"
    /\ \E op \in Methods : \E a \in MethodArgs(op) :
         /\ call' = [call EXCEPT ![t] =
                       [op |-> op, args |-> a, target |-> held[t],
                        before |-> event_logger]]
         /\ log_event(t, held[t], log_event_kwargs(op, a))
    /\ pc' = [pc EXCEPT ![t] = "returned"]
    /\ UNCHANGED <<env, event_logger, nextId, self, held, installed>>

-----------------------------------------------------------------------------
(* Specifications *)

Idle ==
    /\ event_logger = None
    /\ nextId = 0
    /\ pc = [t \in Threads |-> "idle"]
    /\ self = [t \in Threads |-> None]
    /\ call = [t \in Threads |-> NoCall]
    /\ ret = [t \in Threads |-> NotCalled]
    /\ sent = [t \in Threads |-> <<>>]
    /\ held = [t \in Threads |-> None]
    /\ installed = None

\* one caller, any sequence of calls, each run to its end before the next
Init == env \in SomeEnvs /\ Idle

\* a step of init_event_logger or get_event_logger in thread t
Singleton(t, P) ==
    \/ InitCall(t, P)
    \/ CtorResolve(t)
    \/ CtorCredentials(t)
    \/ CtorPublisher(t)
    \/ InitAssign(t)
    \/ InitReturn(t)
    \/ GetCall(t)
    \/ GetCheck(t)
    \/ GetReturn(t)
    \/ Discard(t)

Next ==
    \/ Singleton("t1", SomeParams)
    \/ Keep("t1")
    \/ NoOpCall("t1")
    \/ MethodCall("t1")

Spec == Init /\ [][Next]_vars

\* two threads calling init_event_logger and get_event_logger, every
\* interleaving of their steps
NextConc == \E t \in Threads : Singleton(t, SomeParams)

SpecConc == Init /\ [][NextConc]_vars

\* the constructor as a function of its arguments and the environment: the
\* first init_event_logger of a process, over every argument list and environment
InitCtor == env \in AllEnvs /\ Idle

NextCtor ==
    \/ nextId = 0 /\ InitCall("t1", AllParams)
    \/ CtorResolve("t1")
    \/ CtorCredentials("t1")
    \/ CtorPublisher("t1")
    \/ InitAssign("t1")
    \/ InitReturn("t1")
    \/ Discard("t1")

SpecCtor == InitCtor /\ [][NextCtor]_vars

-----------------------------------------------------------------------------
(* Vocabulary of the properties *)

\* thread t's call of one of `ops` has ended, and the caller looks at how
Ended(t, ops) == pc[t] = "returned" /\ call[t].op \in ops

\* ... with a returned (envelope, outcome) pair
Envelope(t) == ret[t].value.v[1]

Outcome(t) == ret[t].value.v[2]

ReturnedPair(t) == ret[t].kind = "return" /\ ret[t].value.type = "tuple"

OnEventLogger(t) == call[t].target.type = "EventLogger"

EnvelopeFields ==
    <<"event_id", "correlation_id", "service", "event_type", "level",
      "environment", "created_at", "actor", "data">>

\* the JSON text Python prints for the mappings of the input domain
ExpectedJson(d) ==
    CASE d = None -> Str("{}")
      [] d = EmptyDict -> Str("{}")
      [] d = Dict(<< <<"user", Str("abc")>> >>) -> Str("{\"user\": \"abc\"}")
      [] d = Dict(<< <<"id", Str("u1")>> >>) -> Str("{\"id\": \"u1\"}")

NonEmptyStr(x) == x.type = "str" /\ x.v # ""

EndsWithZ(x) ==
    /\ x.type = "str"
    /\ Len(x.v) > 0
    /\ SubSeq(x.v, Len(x.v), Len(x.v)) = "Z"
    /\ \A i \in 1..Len(x.v) : SubSeq(x.v, i, i) # "+"

\* the service an envelope must carry: the caller's override when it is given and
\* not empty, else the facade's default
ExpectedService(a, facade) ==
    IF a.service # None /\ a.service # Str("") THEN a.service ELSE facade.service_name

\* sub occurs in s
Contains(s, sub) ==
    \E i \in 1..(Len(s) + 1 - Len(sub)) : SubSeq(s, i, i + Len(sub) - 1) = sub

-----------------------------------------------------------------------------
(* C1 *)

\* C1: a log_event call whose transport publish raises does not raise to the
\* caller: it returns (envelope, None), the envelope holding all nine fields built
\* from the call's arguments; when publish returns, the outcome is the handle the
\* transport returned.
C1_PublishFailureIsReturned ==
    \A t \in Threads :
        (Ended(t, {"log_event"}) /\ OnEventLogger(t) /\ sent[t] # <<>>) =>
            LET a == call[t].args
                facade == call[t].target
                response == sent[t][1].response
                e == Envelope(t)
            IN  /\ ReturnedPair(t)
                /\ Keys(e) = EnvelopeFields
                /\ Get(e, "event_id").v \in Uuids
                /\ NonEmptyStr(Get(e, "correlation_id"))
                /\ Get(e, "service") = ExpectedService(a, facade)
                /\ Get(e, "event_type") = a.event_type
                /\ Get(e, "level") = a.level
                /\ Get(e, "environment") = facade.environment
                /\ EndsWithZ(Get(e, "created_at"))
                /\ Get(e, "actor") = ExpectedJson(a.actor)
                /\ Get(e, "data") = ExpectedJson(a.data)
                /\ response.kind = "raise" => Outcome(t) = None
                /\ response.kind = "return" => Outcome(t) = response.value

\* a log_event call ended after the transport raised
C1_Witness ==
    \E t \in Threads :
        /\ Ended(t, {"log_event"}) /\ OnEventLogger(t)
        /\ sent[t] # <<>> /\ sent[t][1].response.kind = "raise"
        /\ ReturnedPair(t) /\ Outcome(t) = None
        /\ Get(Envelope(t), "data") = Str("{\"user\": \"abc\"}")

-----------------------------------------------------------------------------
(* C2, C3: the constructor *)

Settings == {"project_id", "topic_name", "environment", "service_name", "credentials_path"}

\* the environment variable behind each setting
EnvVarOf ==
    [f \in Settings |->
       CASE f = "project_id" -> "LOG_GCP_PROJECT"
         [] f = "topic_name" -> "LOG_TOPIC"
         [] f = "environment" -> "LOG_ENVIRONMENT"
         [] f = "service_name" -> "LOG_SERVICE_NAME"
         [] f = "credentials_path" -> "LOG_GCP_CREDENTIALS"]

\* the name the error message gives each setting
RequiredName ==
    [f \in Settings |->
       CASE f = "project_id" -> "LOG_GCP_PROJECT / project_id"
         [] f = "topic_name" -> "LOG_TOPIC / topic_name"
         [] f = "environment" -> "LOG_ENVIRONMENT / environment"
         [] f = "service_name" -> "LOG_SERVICE_NAME / service_name"
         [] f = "credentials_path" -> "LOG_GCP_CREDENTIALS / credentials_path"]

\* thread t is in an init_event_logger call whose constructor has validated
Validated(t) == call[t].op = "init_event_logger" /\ pc[t] # "ctor_resolve"

\* setting f is neither passed to t's call nor set in the environment
Absent(t, f) == call[t].args[f] = None /\ env[EnvVarOf[f]] = None

AbsentAmong(t, S) == {f \in S : Absent(t, f)}

\* setting f resolves to a non-empty value, from the argument or the environment
Resolves(t, f) ==
    \/ NonEmptyStr(call[t].args[f])
    \/ NonEmptyStr(env[EnvVarOf[f]])

RaisedConfigError(t) ==
    pc[t] = "returned" /\ ret[t].kind = "raise" /\ ret[t].exc.type = "ValueError"

\* t's call failed with the configuration error, its message naming every setting of S
RaisedNaming(t, S) ==
    /\ RaisedConfigError(t)
    /\ \A f \in S : Contains(ret[t].exc.msg.v, RequiredName[f])

\* C2 as stated: with any non-empty subset of the five settings absent, construction
\* fails with the configuration error and the message names every absent setting.
C2_Original ==
    \A t \in Threads :
        (Validated(t) /\ AbsentAmong(t, Settings) # {}) =>
            RaisedNaming(t, AbsentAmong(t, Settings))

\* C2 amended: with any non-empty subset of {project id, environment, service name,
\* credential path} absent, construction fails with the configuration error and the
\* message names every absent one of these four; an absent topic name is not an
\* error and is not named, the default "events" standing in for it.
C2_MissingSettingsAllNamed ==
    \A t \in Threads :
        Validated(t) =>
            /\ AbsentAmong(t, Settings \ {"topic_name"}) # {} =>
                   RaisedNaming(t, AbsentAmong(t, Settings \ {"topic_name"}))
            /\ (Absent(t, "topic_name") /\ RaisedConfigError(t)) =>
                   ~Contains(ret[t].exc.msg.v, RequiredName["topic_name"])

\* all five settings absent: the error lists the four that have no default
C2_Witness ==
    \E t \in Threads :
        /\ Validated(t)
        /\ AbsentAmong(t, Settings) = Settings
        /\ RaisedConfigError(t)
        /\ ret[t].exc.msg =
             Str("Missing required config for EventLogger: LOG_GCP_PROJECT / project_id, LOG_ENVIRONMENT / environment, LOG_SERVICE_NAME / service_name, LOG_GCP_CREDENTIALS / credentials_path")

\* the project the facade of t's call is bound to
ResolvedProject(t) ==
    IF NonEmptyStr(call[t].args.project_id)
    THEN call[t].args.project_id
    ELSE env["LOG_GCP_PROJECT"]

OnDefaultTopic(obj, t) ==
    /\ obj.topic_name = Str("events")
    /\ obj.topic_path = Str("projects/" \o ResolvedProject(t).v \o "/topics/events")
    /\ obj.publisher.type = "PublisherClient"

\* C3: with project id, environment, service name and credential path resolving to
\* non-empty values and only the topic name missing, construction raises no
\* configuration error, and the facade's topic name is the default "events", to
\* which its transport handle is bound.
C3_TopicDefaultsToEvents ==
    \A t \in Threads :
        ( /\ Validated(t)
          /\ Absent(t, "topic_name")
          /\ \A f \in Settings \ {"topic_name"} : Resolves(t, f) ) =>
            /\ ~RaisedConfigError(t)
            /\ pc[t] = "init_assign" => OnDefaultTopic(self[t], t)
            /\ pc[t] = "init_return" => OnDefaultTopic(event_logger, t)
            /\ (pc[t] = "returned" /\ ret[t].kind = "return") =>
                   OnDefaultTopic(ret[t].value, t)

\* a facade returned by a call that passed every setting but the topic
C3_Witness ==
    \E t \in Threads :
        /\ Validated(t)
        /\ Absent(t, "topic_name")
        /\ call[t].args.project_id = Str("proj-arg")
        /\ call[t].args.service_name = None /\ env["LOG_SERVICE_NAME"] = Str("billing-api")
        /\ pc[t] = "returned" /\ ret[t].kind = "return"
        /\ ret[t].value.topic_path = Str("projects/proj-arg/topics/events")

-----------------------------------------------------------------------------
(* C4 *)

\* C4 as stated: whenever the caller supplies a correlation_id, any string and the
\* empty one included, the returned envelope carries exactly that value.
C4_Original ==
    \A t \in Threads :
        ( /\ Ended(t, Methods) /\ OnEventLogger(t) /\ ReturnedPair(t)
          /\ call[t].args.correlation_id # None ) =>
            Get(Envelope(t), "correlation_id") = call[t].args.correlation_id

\* C4 amended: whenever the caller supplies a non-empty correlation_id, the
\* returned envelope carries exactly that value and no identifier is generated.
C4_SuppliedCorrelationIdKept ==
    \A t \in Threads :
        ( /\ Ended(t, Methods) /\ OnEventLogger(t) /\ ReturnedPair(t)
          /\ NonEmptyStr(call[t].args.correlation_id) ) =>
            /\ Get(Envelope(t), "correlation_id") = call[t].args.correlation_id
            /\ Get(Envelope(t), "correlation_id").v \notin Uuids

C4_Witness ==
    \E t \in Threads :
        /\ Ended(t, {"debug"}) /\ OnEventLogger(t) /\ ReturnedPair(t)
        /\ call[t].args.correlation_id = Str("corr-1")
        /\ Get(Envelope(t), "correlation_id") = Str("corr-1")

-----------------------------------------------------------------------------
(* C5 *)

NoOpFacade == [type |-> "NoOpEventLogger"]

\* C5: while no init_event_logger has succeeded, get_event_logger returns a no-op
\* facade, and every operation on it returns ({}, None) without raising and without
\* a publish.
C5_UninitialisedIsNoOp ==
    installed = None =>
        \A t \in Threads :
            /\ Ended(t, {"get_event_logger"}) => ret[t] = Return(NoOpFacade)
            /\ held[t] # None => held[t] = NoOpFacade
            /\ Ended(t, Methods) =>
                 /\ ret[t] = Return(Tuple2(EmptyDict, None))
                 /\ sent[t] = <<>>

\* after a failed init_event_logger, error(...) on the no-op facade, with data an
\* EventLogger could not serialise
C5_Witness ==
    \E t \in Threads :
        /\ installed = None /\ nextId > 0
        /\ Ended(t, {"error"})
        /\ call[t].target = NoOpFacade
        /\ call[t].args.data = Dict(<< <<"seen", PySet>> >>)
        /\ ret[t] = Return(Tuple2(EmptyDict, None))

-----------------------------------------------------------------------------
(* C6 *)

\* the value setting f of a facade built by t's call must have: the argument, else
\* the environment variable, else (for the topic) the default
ExpectedSetting(t, f) ==
    IF NonEmptyStr(call[t].args[f]) THEN call[t].args[f]
    ELSE IF env[EnvVarOf[f]] # None THEN env[EnvVarOf[f]]
    ELSE IF f = "topic_name" THEN Str("events") ELSE None

\* C6: a successful init_event_logger returns the EventLogger it constructed, built
\* from its own arguments only, and installs it in place of any earlier one; every
\* later get_event_logger returns that instance, until the next successful
\* init_event_logger.
C6_LastInitWins ==
    /\ ((\A u \in Threads : pc[u] = "idle") /\ installed # None) =>
           event_logger = installed
    /\ \A t \in Threads :
        /\ (Ended(t, {"init_event_logger"}) /\ ret[t].kind = "return") =>
             /\ Constructed(ret[t].value)
             /\ ret[t].value.id = nextId
             /\ call[t].before # None => ret[t].value.id # call[t].before.id
             /\ \A f \in Settings : ret[t].value[f] = ExpectedSetting(t, f)
             /\ event_logger = ret[t].value
        /\ (Ended(t, {"get_event_logger"}) /\ installed # None) =>
             ret[t] = Return(installed)

\* a get_event_logger that returns the second instance, which replaced the first
C6_Witness ==
    \E t \in Threads :
        /\ Ended(t, {"get_event_logger"})
        /\ ret[t].kind = "return" /\ ret[t].value.type = "EventLogger"
        /\ ret[t].value.id = 2
        /\ held[t].type = "EventLogger" /\ held[t].id = 1
        /\ held[t].environment # ret[t].value.environment

-----------------------------------------------------------------------------
(* C7 *)

\* the level method op fixes, or passes through
LevelOf(op, a) == IF op = "log" THEN a.level ELSE Str(op)

\* C7: debug, info, warning and error behave as log_event with the level fixed to
\* the method's name, and log as log_event with the caller's level: the same
\* envelope fields, the same failure, and exactly one publish attempted.
C7_WrappersAreLogEvent ==
    \A t \in Threads :
        (Ended(t, Wrappers \cup {"log"}) /\ OnEventLogger(t)) =>
            LET a == call[t].args
                facade == call[t].target
                direct == [a EXCEPT !.level = LevelOf(call[t].op, a)]
            IN  /\ ret[t].kind = "raise" => (build_event_raises(direct) /\ sent[t] = <<>>)
                /\ ret[t].kind = "return" =>
                     /\ ReturnedPair(t)
                     /\ Len(sent[t]) = 1
                     /\ sent[t][1].topic = facade.topic_path
                     /\ Get(Envelope(t), "level") = LevelOf(call[t].op, a)
                     /\ Get(Envelope(t), "event_type") = a.event_type
                     /\ Get(Envelope(t), "service") = ExpectedService(a, facade)
                     /\ NonEmptyStr(a.correlation_id) =>
                            Get(Envelope(t), "correlation_id") = a.correlation_id
                     /\ Get(Envelope(t), "actor") = ExpectedJson(a.actor)
                     /\ Get(Envelope(t), "data") = ExpectedJson(a.data)
                     /\ Get(Envelope(t), "environment") = facade.environment
                     /\ \E event_id \in Uuids, generated_id \in Uuids, now \in Clock :
                            ret[t] = publish_outcome(
                                        build_event(facade, direct, event_id, generated_id, now),
                                        sent[t][1].response)

C7_Witness ==
    \E t \in Threads :
        /\ Ended(t, {"error"}) /\ OnEventLogger(t) /\ ReturnedPair(t)
        /\ Get(Envelope(t), "level") = Str("error")
        /\ call[t].args.data = None
        /\ Len(sent[t]) = 1

-----------------------------------------------------------------------------
(* C8 *)

\* C8: every envelope an EventLogger returns has a non-empty service, the caller's
\* override when it is given and non-empty and the facade's non-empty default
\* otherwise, and the environment fixed when that facade was constructed.
C8_ServiceAndEnvironment ==
    \A t \in Threads :
        (Ended(t, Methods) /\ OnEventLogger(t) /\ ReturnedPair(t)) =>
            LET a == call[t].args
                facade == call[t].target
            IN  /\ NonEmptyStr(Get(Envelope(t), "service"))
                /\ NonEmptyStr(facade.service_name)
                /\ Get(Envelope(t), "service") = ExpectedService(a, facade)
                /\ Get(Envelope(t), "environment") = facade.environment
                /\ facade.environment \in {Str("prod"), env["LOG_ENVIRONMENT"]}
                /\ NonEmptyStr(facade.environment)

\* an envelope of the first facade, made after a second one with another
\* environment was installed, with an empty service override
C8_Witness ==
    \E t \in Threads :
        /\ Ended(t, Methods) /\ OnEventLogger(t) /\ ReturnedPair(t)
        /\ call[t].args.service = Str("")
        /\ Get(Envelope(t), "service") = call[t].target.service_name
        /\ event_logger # None /\ event_logger.id # call[t].target.id
        /\ event_logger.environment # Get(Envelope(t), "environment")

-----------------------------------------------------------------------------
(* C9 *)

\* C9: an init_event_logger whose construction fails leaves the installed instance
\* as it was: the global is what it was when the call began, and get_event_logger
\* goes on returning the instance installed before, or a no-op facade if none was.
C9_FailedInitChangesNothing ==
    \A t \in Threads :
        /\ (Ended(t, {"init_event_logger"}) /\ ret[t].kind = "raise") =>
             /\ event_logger = call[t].before
             /\ event_logger = installed
        /\ Ended(t, {"get_event_logger"}) =>
             ret[t] = Return(IF installed = None THEN NoOpFacade ELSE installed)

\* a construction that failed for missing settings while an instance was installed
C9_Witness ==
    \E t \in Threads :
        /\ Ended(t, {"init_event_logger"})
        /\ ret[t].kind = "raise" /\ ret[t].exc.type = "ValueError"
        /\ call[t].before # None
        /\ event_logger = call[t].before

-----------------------------------------------------------------------------
(* C10 *)

\* every setting resolved non-empty, the transport handle and the topic path bound
FullyConstructed(obj) ==
    /\ obj.type = "EventLogger"
    /\ \A f \in Settings : NonEmptyStr(obj[f])
    /\ obj.publisher = PublisherClient(obj.credentials_path)
    /\ obj.topic_path = Str("projects/" \o obj.project_id.v \o "/topics/" \o obj.topic_name.v)

\* C10: under every interleaving of init_event_logger and get_event_logger calls,
\* get_event_logger returns a no-op facade or a fully constructed EventLogger, never
\* a partially constructed one, and a get_event_logger that starts after some
\* init_event_logger has written the global does not return a no-op facade.
C10_NeverPartial ==
    /\ event_logger # None => FullyConstructed(event_logger)
    /\ \A t \in Threads :
         Ended(t, {"get_event_logger"}) =>
            /\ ret[t].kind = "return"
            /\ ret[t].value = NoOpFacade \/ FullyConstructed(ret[t].value)
            /\ call[t].before # None => ret[t].value # NoOpFacade

\* a get_event_logger that began before any write and returned the instance another
\* thread's init_event_logger, still running, had just installed
C10_Witness ==
    \E t \in Threads : \E u \in Threads \ {t} :
        /\ Ended(t, {"get_event_logger"})
        /\ call[t].before = None
        /\ FullyConstructed(ret[t].value)
        /\ pc[u] = "init_return"

====
